---- MODULE Spec2Model ----
(***************************************************************************)
(* Fused cross-entropy loss of unsloth/kernels/cross_entropy_loss.py:      *)
(* the single-pass forward kernel, the chunked forward kernel with its     *)
(* combine step, the in-place backward kernel, the autograd function that  *)
(* launches them and the top-level fast_cross_entropy_loss.                *)
(*                                                                         *)
(* Arithmetic.  The kernels compute in float32.  The model computes in an  *)
(* exact fragment of the reals that is closed under what the kernels do:   *)
(* a value is  lin + log2(lg)  with lin a rational and lg a positive       *)
(* rational with odd numerator and denominator (so the form is unique).    *)
(* exp and log are taken to base 2; the algebra the kernels rely on        *)
(* (exp(a+b) = exp(a)*exp(b), log(exp(a)) = a) is the same in any base.    *)
(* Rationals are pairs <<n, d>> in lowest terms with d > 0; d = 0 encodes  *)
(* the IEEE specials -inf = <<-1,0>>, +inf = <<1,0>>, NaN = <<0,0>>.       *)
(***************************************************************************)
EXTENDS Integers, FiniteSets, TLC

\* ------------------------------------------------------------------------
\* Rationals
\* ------------------------------------------------------------------------
Abs(x) == IF x < 0 THEN -x ELSE x

RECURSIVE GCD(_, _)
GCD(a, b) == IF b = 0 THEN a ELSE GCD(b, a % b)

Rat(n, d) ==
    IF d = 0 THEN <<(IF n > 0 THEN 1 ELSE IF n < 0 THEN -1 ELSE 0), 0>>
    ELSE LET g == GCD(Abs(n), Abs(d))
             s == IF d < 0 THEN -1 ELSE 1
         IN  <<(s * n) \div g, (s * d) \div g>>

RECURSIVE Pow2(_)
Pow2(k) == IF k = 0 THEN 1 ELSE 2 * Pow2(k - 1)

\* the exponent of 2 in the positive integer n
RECURSIVE Val2(_)
Val2(n) == IF n % 2 = 1 THEN 0 ELSE 1 + Val2(n \div 2)

OddPart(n) == n \div Pow2(Val2(n))

RatAdd(a, b) == Rat(a[1] * b[2] + b[1] * a[2], a[2] * b[2])
RatMul(a, b) == Rat(a[1] * b[1], a[2] * b[2])
RatLess(a, b) == a[1] * b[2] < b[1] * a[2]

\* ------------------------------------------------------------------------
\* Float values:  lin + log2(lg)
\* ------------------------------------------------------------------------
NAN    == <<0, 0>>
NEGINF == <<-1, 0>>
POSINF == <<1, 0>>
ONE    == <<1, 1>>

Fl(lin, lg) == [lin |-> lin, lg |-> lg]
FNaN    == Fl(NAN, ONE)
FNegInf == Fl(NEGINF, ONE)
FPosInf == Fl(POSINF, ONE)
FInt(n) == Fl(<<n, 1>>, ONE)
\* a location of a torch.empty buffer that nothing has stored to yet
EMPTY   == Fl(NAN, <<0, 1>>)

IsNaN(a)    == a.lin = NAN
IsFinite(a) == a.lin[2] # 0

FNeg(a) ==
    IF IsNaN(a) THEN FNaN
    ELSE IF ~IsFinite(a) THEN Fl(<<-a.lin[1], 0>>, ONE)
    ELSE Fl(<<-a.lin[1], a.lin[2]>>, <<a.lg[2], a.lg[1]>>)

FAdd(a, b) ==
    IF IsNaN(a) \/ IsNaN(b) THEN FNaN
    ELSE IF ~IsFinite(a) /\ ~IsFinite(b)
         THEN (IF a.lin = b.lin THEN Fl(a.lin, ONE) ELSE FNaN)
    ELSE IF ~IsFinite(a) THEN Fl(a.lin, ONE)
    ELSE IF ~IsFinite(b) THEN Fl(b.lin, ONE)
    ELSE Fl(RatAdd(a.lin, b.lin), RatMul(a.lg, b.lg))

FSub(a, b) == FAdd(a, FNeg(b))

\* 2^a.  Exact when the linear part is an integer, which it is for every
\* argument the kernels form from integer scores; NaN outside the fragment.
FExp(a) ==
    IF IsNaN(a) THEN FNaN
    ELSE IF a.lin = NEGINF THEN FInt(0)
    ELSE IF a.lin = POSINF THEN FPosInf
    ELSE IF a.lin[2] # 1 THEN FNaN
    ELSE LET k == a.lin[1]
         IN  IF k >= 0 THEN Fl(Rat(Pow2(k) * a.lg[1], a.lg[2]), ONE)
                       ELSE Fl(Rat(a.lg[1], Pow2(-k) * a.lg[2]), ONE)

\* log2 of a rational
FLog(a) ==
    IF IsNaN(a) \/ a.lg # ONE THEN FNaN
    ELSE IF a.lin = POSINF THEN FPosInf
    ELSE IF a.lin[1] < 0 THEN FNaN
    ELSE IF a.lin[1] = 0 THEN FNegInf
    ELSE LET n == a.lin[1]
             d == a.lin[2]
         IN  Fl(<<Val2(n) - Val2(d), 1>>, <<OddPart(n), OddPart(d)>>)

\* product of two rationals (an upstream gradient times a softmax term)
FMul(a, b) ==
    IF IsNaN(a) \/ IsNaN(b) \/ a.lg # ONE \/ b.lg # ONE THEN FNaN
    ELSE IF IsFinite(a) /\ IsFinite(b) THEN Fl(RatMul(a.lin, b.lin), ONE)
    ELSE IF a.lin[1] = 0 \/ b.lin[1] = 0 THEN FNaN
    ELSE Fl(<<(IF (a.lin[1] < 0) = (b.lin[1] < 0) THEN 1 ELSE -1), 0>>, ONE)

\* a < b
FLess(a, b) ==
    IF IsNaN(a) \/ IsNaN(b) THEN FALSE
    ELSE IF ~IsFinite(a) \/ ~IsFinite(b)
         THEN a # b /\ (a.lin = NEGINF \/ b.lin = POSINF)
    ELSE IF a.lg = ONE /\ b.lg = ONE THEN RatLess(a.lin, b.lin)
    ELSE LET e == FExp(FSub(a, b))
         IN  ~IsNaN(e) /\ RatLess(e.lin, ONE)

\* reductions over a block held as a function on 0..n-1
RECURSIVE MaxUpTo(_, _)
MaxUpTo(v, i) ==
    IF i = 0 THEN v[0]
    ELSE LET m == MaxUpTo(v, i - 1)
         IN  IF IsNaN(v[i]) \/ FLess(m, v[i]) THEN v[i] ELSE m
FMax(v) == MaxUpTo(v, Cardinality(DOMAIN v) - 1)

RECURSIVE SumUpTo(_, _)
SumUpTo(v, i) == IF i = 0 THEN v[0] ELSE FAdd(SumUpTo(v, i - 1), v[i])
FSum(v) == SumUpTo(v, Cardinality(DOMAIN v) - 1)


\* ------------------------------------------------------------------------
\* Constants of the program and bounds of the model
\* ------------------------------------------------------------------------
IGNORE == -100
\* 65536 in the source; scaled so that a row of MaxVocab columns is chunked
MAX_FUSED_SIZE == 4
\* 4096 in the source (BLOCK_SIZE of backward); scaled likewise, and like
\* the source's smaller than, and a divisor of, MAX_FUSED_SIZE
BACKWARD_BLOCK_SIZE == 2

MaxRows  == 2
MaxVocab == 5
MaxPad   == 1
\* the largest score matrix, rows x columns
MaxCells == 10

LogitVals == {0, 1}
DlossVals == {2}

LabelVals(vocab_size) == {IGNORE} \cup (0 .. vocab_size - 1)

\* div, mod = divmod(a, b); div + (mod != 0)
CeilDiv(a, b) == (a \div b) + (IF a % b # 0 THEN 1 ELSE 0)

RECURSIVE next_power_of_2(_, _)
next_power_of_2(n, p) == IF p >= n THEN p ELSE next_power_of_2(n, 2 * p)
\* BLOCK_SIZE of calculate_settings: the least power of two holding n columns
calculate_settings(n) == next_power_of_2(n, 1)

\* ------------------------------------------------------------------------
\* Memory
\* ------------------------------------------------------------------------
Buffer(n, v) == [a \in 0 .. n - 1 |-> v]

\* tl.load; a read outside the allocation yields no defined value
Load(mem, a) == IF a \in DOMAIN mem THEN mem[a] ELSE FNaN
\* tl.store
Store(buf, a, v) == IF a \in DOMAIN buf THEN [buf EXCEPT ![a] = v] ELSE buf

\* mask = col_offsets < n_cols
ColMask_inclusive(col, n_cols) == col <= n_cols
ColMask(col, n_cols) == col < n_cols

\* tl.load(ptr + col_offsets, mask = mask, other = -inf)
MaskedLoad(mem, base, col_offsets, n_cols) ==
    [i \in DOMAIN col_offsets |->
        IF ColMask(col_offsets[i], n_cols) THEN Load(mem, base + col_offsets[i])
        ELSE FNegInf]

\* c + log(sum(exp(x - c))) with c = max(x)
StableLogSumExp(x) ==
    LET c == FMax(x)
    IN  FAdd(c, FLog(FSum([i \in DOMAIN x |-> FExp(FSub(x[i], c))])))

\* ------------------------------------------------------------------------
\* Kernels.  Each operator is one program instance (one unit of the grid).
\* k is the record of the launch arguments (the pointers are the buffers
\* themselves).  The labels of the model lie in [-100, MaxVocab), where the
\* kernels' casts of the loaded label to int32 / int64 change nothing.
\* A forward unit returns the two output buffers with its stores applied,
\* a backward unit returns the score buffer with its stores applied.
\* ------------------------------------------------------------------------
_cross_entropy_forward(k, row_idx) ==
    LET base        == row_idx * k.logits_row_stride
        col_offsets == [i \in 0 .. k.BLOCK_SIZE - 1 |-> i]
        label_idx   == k.labels[row_idx]
        logits_blk  == MaskedLoad(k.logits, base, col_offsets, k.VOCAB_SIZE)
        lse         == StableLogSumExp(logits_blk)
        loss        == IF label_idx # IGNORE
                       THEN FSub(lse, Load(k.logits, base + label_idx))
                       ELSE FInt(0)
    IN  [logsumexp |-> Store(k.logsumexp, row_idx, lse),
         losses    |-> Store(k.losses, row_idx, loss)]

Min(a, b) == IF a < b THEN a ELSE b

\* the slot of the (chunks x rows) partial buffers a chunked unit stores to
PartialSlot_collide(row_idx, col_idx, n_rows) == row_idx + col_idx
PartialSlot_transposed(row_idx, col_idx, n_rows) == row_idx * n_rows + col_idx
PartialSlot(row_idx, col_idx, n_rows) == row_idx + col_idx * n_rows

\* the label-found branch of a chunked unit
LabelInChunk_inclusive(label_idx, col_idx, BLOCK_SIZE, n_cols) ==
    /\ label_idx # IGNORE
    /\ label_idx >= (col_idx + 0) * BLOCK_SIZE
    /\ label_idx <= Min((col_idx + 1) * BLOCK_SIZE, n_cols)
LabelInChunk(label_idx, col_idx, BLOCK_SIZE, n_cols) ==
    /\ label_idx # IGNORE
    /\ label_idx >= (col_idx + 0) * BLOCK_SIZE
    /\ label_idx < Min((col_idx + 1) * BLOCK_SIZE, n_cols)

\* lse = 0.0; loss = lse - logits_label
FoundLoss_keeps_lse(lse, logits_label) == FSub(lse, logits_label)
FoundLoss(lse, logits_label) == FSub(FInt(0), logits_label)

_large_cross_entropy_forward(k, row_idx, col_idx) ==
    LET base        == row_idx * k.logits_row_stride
        slot        == PartialSlot(row_idx, col_idx, k.n_rows)
        col_offsets == [i \in 0 .. k.BLOCK_SIZE - 1 |->
                           col_idx * k.BLOCK_SIZE + i]
        label_idx   == k.labels[row_idx]
        logits_blk  == MaskedLoad(k.logits, base, col_offsets, k.n_cols)
        max_logits  == FMax(logits_blk)
        lse         == FAdd(FLog(FSum([i \in DOMAIN logits_blk |->
                                   FExp(FSub(logits_blk[i], max_logits))])),
                            max_logits)
        loss        == IF LabelInChunk(label_idx, col_idx, k.BLOCK_SIZE, k.n_cols)
                       THEN FoundLoss(lse, Load(k.logits, base + label_idx))
                       ELSE FInt(0)
    IN  [logsumexp |-> Store(k.logsumexp, slot, lse),
         losses    |-> Store(k.losses, slot, loss)]

\* the columns of its row a unit's col_offsets cover under the mask
BlockCols(block_idx, VOCAB_SIZE, BLOCK_SIZE) ==
    { c \in block_idx * BLOCK_SIZE .. (block_idx + 1) * BLOCK_SIZE - 1 :
        ColMask(c, VOCAB_SIZE) }

\* the addresses one backward unit stores to
BackwardStores(k, row_idx, block_idx) ==
    { row_idx * k.logits_row_stride + c :
        c \in BlockCols(block_idx, k.VOCAB_SIZE, k.BLOCK_SIZE) }

\* logsumexp = tl.load(logsumexp_ptr + row_idx)
SavedLogSumExp_recomputed(k, row_idx) ==
    StableLogSumExp([c \in 0 .. k.VOCAB_SIZE - 1 |->
                        Load(k.logits, row_idx * k.logits_row_stride + c)])
SavedLogSumExp(k, row_idx) == Load(k.logsumexp, row_idx)

\* tl.where(col_offsets == label_idx, y - 1.0, y)
MinusIndicator_block_local(y, col_offsets, label_idx) ==
    [i \in DOMAIN y |-> IF i = label_idx THEN FSub(y[i], FInt(1)) ELSE y[i]]
MinusIndicator(y, col_offsets, label_idx) ==
    [i \in DOMAIN y |->
        IF col_offsets[i] = label_idx THEN FSub(y[i], FInt(1)) ELSE y[i]]

\* dloss = tl.load(dloss_ptr) if label_idx != -100 else 0.0
UpstreamOf_unmasked(k, row_idx, label_idx) ==
    Load(k.dlosses, row_idx * k.dloss_row_stride)
UpstreamOf(k, row_idx, label_idx) ==
    IF label_idx # IGNORE
    THEN Load(k.dlosses, row_idx * k.dloss_row_stride)
    ELSE FInt(0)

_cross_entropy_backward(k, row_idx, block_idx) ==
    LET base        == row_idx * k.logits_row_stride
        col_offsets == [i \in 0 .. k.BLOCK_SIZE - 1 |->
                           block_idx * k.BLOCK_SIZE + i]
        label_idx   == k.labels[row_idx]
        x           == MaskedLoad(k.logits, base, col_offsets, k.VOCAB_SIZE)
        lse_row     == SavedLogSumExp(k, row_idx)
        y           == MinusIndicator([i \in DOMAIN x |->
                                          FExp(FSub(x[i], lse_row))],
                                      col_offsets, label_idx)
        dloss       == UpstreamOf(k, row_idx, label_idx)
        at          == BackwardStores(k, row_idx, block_idx)
    IN  [a \in DOMAIN k.logits |->
            IF a \in at
            THEN FMul(dloss, y[a - base - block_idx * k.BLOCK_SIZE])
            ELSE k.logits[a]]

\* ------------------------------------------------------------------------
\* State
\* ------------------------------------------------------------------------
VARIABLES
    pc,                 \* where the call is
    caller,             \* who gets forward's result: "loss", "apply", "autograd"
    logits_shape,       \* logits.shape
    labels_shape,       \* labels.shape
    logits_row_stride,  \* logits.stride(0) of the (rows, vocab) view
    logits,             \* the score buffer
    scores0,            \* the scores as they were passed in (never assigned)
    labels,             \* the label vector, flattened
    losses,             \* forward's losses tensor
    logsumexp,          \* forward's logsumexp tensor, saved for backward
    fdone,              \* forward units (row, chunk) that have run
    dlosses,            \* the upstream gradient's storage
    dloss_row_stride,   \* dlosses.stride(0)
    bdone,              \* backward units (row, block) that have run
    stores,             \* log of backward's stores: (row, block, address)
    result              \* what fast_cross_entropy_loss returned

vars == <<pc, caller, logits_shape, labels_shape, logits_row_stride, logits,
          scores0, labels, losses, logsumexp, fdone, dlosses,
          dloss_row_stride, bdone, stores, result>>

NoBuffer == Buffer(0, EMPTY)
NoResult == [num |-> EMPTY, den |-> 0]

\* n_rows, vocab_size = logits.shape  (of the two-dimensional view)
NRows     == logits_shape[1]
VocabSize == logits_shape[2]
NLabels   == labels_shape[1]

\* n_chunks of forward, n_blocks of backward
NChunks == CeilDiv(VocabSize, MAX_FUSED_SIZE)
NBlocks == CeilDiv(VocabSize, BACKWARD_BLOCK_SIZE)

\* ------------------------------------------------------------------------
\* Inputs
\* ------------------------------------------------------------------------
\* score rows: a ramp over LogitVals from any start, continued over the
\* padding that follows the row when the matrix is a slice of a wider one
ScoreBuffers(n_rows, stride) ==
    { [a \in 0 .. n_rows * stride - 1 |->
          FInt((start[a \div stride] + (a % stride)) % Cardinality(LogitVals))] :
      start \in [0 .. n_rows - 1 -> LogitVals] }

\* label vectors of n elements for a matrix of n_rows rows; no kernel loads
\* an element past the last row, and the model fixes those
LabelVectors(n, n_rows, vocab_size) ==
    { lab \in [0 .. n - 1 -> LabelVals(vocab_size)] :
        \A i \in 0 .. n - 1 : i >= n_rows => lab[i] = IGNORE }

\* the upstream gradient: a scalar expanded over the rows (stride 0) or one
\* value per row (stride 1), each row's different
UpstreamGradients(n_rows) ==
    { [stride |-> 0, buf |-> [a \in 0 .. 0 |-> FInt(g)]] : g \in DlossVals }
    \cup
    { [stride |-> 1, buf |-> [a \in 0 .. n_rows - 1 |-> FInt(g + a)]] :
        g \in DlossVals }

Init ==
    /\ \E d \in 1 .. MaxVocab, pad \in {0, MaxPad} :
        /\ logits_row_stride = d + pad
        /\ \/ \E batch \in 1 .. MaxRows, seq_len \in 1 .. MaxRows,
                 lb \in 1 .. MaxRows, ls \in 1 .. MaxRows :
                /\ batch * seq_len <= MaxRows
                /\ batch * seq_len * d <= MaxCells
                /\ lb * ls <= MaxRows
                /\ pc = "loss_call"
                /\ caller = "loss"
                /\ logits_shape = <<batch, seq_len, d>>
                /\ labels_shape = <<lb, ls>>
                /\ logits \in ScoreBuffers(batch * seq_len, d + pad)
                /\ labels \in LabelVectors(lb * ls, batch * seq_len, d)
           \/ \E n_rows \in 1 .. MaxRows, n_lab \in 1 .. MaxRows :
                /\ n_rows * d <= MaxCells
                /\ n_lab >= n_rows
                /\ pc = "apply_call"
                /\ caller = "apply"
                /\ logits_shape = <<n_rows, d>>
                /\ labels_shape = <<n_lab>>
                /\ logits \in ScoreBuffers(n_rows, d + pad)
                /\ labels \in LabelVectors(n_lab, n_rows, d)
    /\ scores0 = logits
    /\ losses = NoBuffer
    /\ logsumexp = NoBuffer
    /\ fdone = {}
    /\ dlosses = NoBuffer
    /\ dloss_row_stride = 0
    /\ bdone = {}
    /\ stores = {}
    /\ result = NoResult

\* ------------------------------------------------------------------------
\* fast_cross_entropy_loss, up to the call of Fast_CrossEntropyLoss.apply
\* ------------------------------------------------------------------------
LossCall ==
    /\ pc = "loss_call"
    /\ LET batch   == logits_shape[1]
           seq_len == logits_shape[2]
           d       == logits_shape[3]
       IN  IF labels_shape = <<batch, seq_len>>
           THEN /\ logits_shape' = <<batch * seq_len, d>>
                /\ labels_shape' = <<labels_shape[1] * labels_shape[2]>>
                /\ pc' = "apply_call"
           ELSE /\ pc' = "error"
                /\ UNCHANGED <<logits_shape, labels_shape>>
    /\ UNCHANGED <<caller, logits_row_stride, logits, scores0, labels, losses,
                   logsumexp, fdone, dlosses, dloss_row_stride, bdone, stores,
                   result>>

\* ------------------------------------------------------------------------
\* Fast_CrossEntropyLoss.forward
\* ------------------------------------------------------------------------
ForwardLaunch ==
    /\ pc = "apply_call"
    /\ LET slots == IF NChunks = 1 THEN NRows ELSE NChunks * NRows
       IN  /\ losses' = Buffer(slots, EMPTY)
           /\ logsumexp' = Buffer(slots, EMPTY)
    /\ fdone' = {}
    /\ pc' = "kernel"
    /\ UNCHANGED <<caller, logits_shape, labels_shape, logits_row_stride,
                   logits, scores0, labels, dlosses, dloss_row_stride, bdone,
                   stores, result>>

\* the arguments of the forward launches
ForwardArgs(BLOCK_SIZE) ==
    [logits |-> logits, logits_row_stride |-> logits_row_stride,
     losses |-> losses, logsumexp |-> logsumexp, labels |-> labels,
     n_rows |-> NRows, n_cols |-> VocabSize, VOCAB_SIZE |-> VocabSize,
     BLOCK_SIZE |-> BLOCK_SIZE]

ForwardGrid == (0 .. NRows - 1) \X (0 .. NChunks - 1)

ForwardUnit(row_idx) ==
    /\ pc = "kernel"
    /\ NChunks = 1
    /\ <<row_idx, 0>> \in ForwardGrid \ fdone
    /\ LET k   == ForwardArgs(calculate_settings(VocabSize))
           out == _cross_entropy_forward(k, row_idx)
       IN  /\ losses' = out.losses
           /\ logsumexp' = out.logsumexp
    /\ fdone' = fdone \cup {<<row_idx, 0>>}
    /\ UNCHANGED <<pc, caller, logits_shape, labels_shape, logits_row_stride,
                   logits, scores0, labels, dlosses, dloss_row_stride, bdone,
                   stores, result>>

LargeForwardUnit(row_idx, col_idx) ==
    /\ pc = "kernel"
    /\ NChunks > 1
    /\ <<row_idx, col_idx>> \in ForwardGrid \ fdone
    /\ LET k   == ForwardArgs(MAX_FUSED_SIZE)
           out == _large_cross_entropy_forward(k, row_idx, col_idx)
       IN  /\ losses' = out.losses
           /\ logsumexp' = out.logsumexp
    /\ fdone' = fdone \cup {<<row_idx, col_idx>>}
    /\ UNCHANGED <<pc, caller, logits_shape, labels_shape, logits_row_stride,
                   logits, scores0, labels, dlosses, dloss_row_stride, bdone,
                   stores, result>>

\* where forward's return value goes
AfterForward == IF caller = "loss" THEN "loss_norm" ELSE "returned"

\* the single-pass path: ctx.save_for_backward and return
ForwardReturn ==
    /\ pc = "kernel"
    /\ NChunks = 1
    /\ fdone = ForwardGrid
    /\ pc' = AfterForward
    /\ UNCHANGED <<caller, logits_shape, labels_shape, logits_row_stride,
                   logits, scores0, labels, losses, logsumexp, fdone, dlosses,
                   dloss_row_stride, bdone, stores, result>>

\* torch.logsumexp(t, dim = 0) of a (chunks x rows) tensor, one row's value
TorchLogSumExp(buf, n_chunks, n_rows, row) ==
    LET col == [c \in 0 .. n_chunks - 1 |-> buf[row + c * n_rows]]
        m   == FMax(col)
    IN  FAdd(m, FLog(FSum([c \in DOMAIN col |-> FExp(FSub(col[c], m))])))

\* t.sum(dim = 0) of a (chunks x rows) tensor, one row's value
TorchColumnSum(buf, n_chunks, n_rows, row) ==
    FSum([c \in 0 .. n_chunks - 1 |-> buf[row + c * n_rows]])

\* labels == -100 broadcast to the shape of losses: defined when the label
\* vector has one element per row, or a single element
MaskBroadcasts == NLabels = NRows \/ NLabels = 1
IgnoreMask(row) == labels[IF NLabels = 1 THEN 0 ELSE row] = IGNORE

\* the combined losses and logsumexp of the chunked path (lines 216-219)
Combined ==
    LET lse == [r \in 0 .. NRows - 1 |->
                   TorchLogSumExp(logsumexp, NChunks, NRows, r)]
        sum == [r \in 0 .. NRows - 1 |->
                   TorchColumnSum(losses, NChunks, NRows, r)]
        tot == [r \in 0 .. NRows - 1 |-> FAdd(sum[r], lse[r])]
    IN  [logsumexp |-> lse,
         losses    |-> [r \in 0 .. NRows - 1 |->
                          IF IgnoreMask(r) THEN FInt(0) ELSE tot[r]]]

\* the chunked path: combine, ctx.save_for_backward and return
Combine ==
    /\ pc = "kernel"
    /\ NChunks > 1
    /\ fdone = ForwardGrid
    /\ IF MaskBroadcasts
       THEN /\ losses' = Combined.losses
            /\ logsumexp' = Combined.logsumexp
            /\ pc' = AfterForward
       ELSE /\ pc' = "error"
            /\ UNCHANGED <<losses, logsumexp>>
    /\ UNCHANGED <<caller, logits_shape, labels_shape, logits_row_stride,
                   logits, scores0, labels, fdone, dlosses, dloss_row_stride,
                   bdone, stores, result>>

\* ------------------------------------------------------------------------
\* fast_cross_entropy_loss, after Fast_CrossEntropyLoss.apply returned
\* ------------------------------------------------------------------------
\* torch.count_nonzero(labels != -100)
CountValid_all_rows(lab) == Cardinality(DOMAIN lab)
CountValid(lab) == Cardinality({r \in DOMAIN lab : lab[r] # IGNORE})

\* float division of a 0-dim tensor by a count
TrueDivide(x, n) ==
    IF n # 0 THEN [num |-> x, den |-> n]
    ELSE IF IsNaN(x) \/ x = FInt(0) THEN [num |-> FNaN, den |-> 1]
    ELSE IF FLess(x, FInt(0)) THEN [num |-> FNegInf, den |-> 1]
    ELSE [num |-> FPosInf, den |-> 1]

Normalize ==
    /\ pc = "loss_norm"
    /\ LET n_items == CountValid(labels)
       IN  result' = TrueDivide(FSum(losses), n_items)
    /\ pc' = "returned"
    /\ UNCHANGED <<caller, logits_shape, labels_shape, logits_row_stride,
                   logits, scores0, labels, losses, logsumexp, fdone, dlosses,
                   dloss_row_stride, bdone, stores>>

\* ------------------------------------------------------------------------
\* Fast_CrossEntropyLoss.backward
\* ------------------------------------------------------------------------
\* dlosses is what autograd passes in: for the mean fast_cross_entropy_loss
\* returns it is a scalar expanded over the rows (stride 0); the values are
\* drawn from UpstreamGradients whoever called forward.  The scalar result
\* has gone to the caller by now and is no longer part of the state.
BackwardLaunch ==
    /\ pc = "returned"
    /\ \E g \in UpstreamGradients(NRows) :
        /\ dlosses' = g.buf
        /\ dloss_row_stride' = g.stride
    /\ bdone' = {}
    /\ stores' = {}
    /\ caller' = "autograd"
    /\ result' = NoResult
    /\ pc' = "bkernel"
    /\ UNCHANGED <<logits_shape, labels_shape, logits_row_stride, logits,
                   scores0, labels, losses, logsumexp, fdone>>

BackwardArgs ==
    [logits |-> logits, logits_row_stride |-> logits_row_stride,
     dlosses |-> dlosses, dloss_row_stride |-> dloss_row_stride,
     logsumexp |-> logsumexp, labels |-> labels, VOCAB_SIZE |-> VocabSize,
     BLOCK_SIZE |-> BACKWARD_BLOCK_SIZE]

BackwardGrid == (0 .. NRows - 1) \X (0 .. NBlocks - 1)

BackwardUnit(row_idx, block_idx) ==
    /\ pc = "bkernel"
    /\ <<row_idx, block_idx>> \in BackwardGrid \ bdone
    /\ logits' = _cross_entropy_backward(BackwardArgs, row_idx, block_idx)
    /\ stores' = stores \cup
         { <<row_idx, block_idx, a>> :
             a \in BackwardStores(BackwardArgs, row_idx, block_idx) }
    /\ bdone' = bdone \cup {<<row_idx, block_idx>>}
    /\ UNCHANGED <<pc, caller, logits_shape, labels_shape, logits_row_stride,
                   scores0, labels, losses, logsumexp, fdone, dlosses,
                   dloss_row_stride, result>>

BackwardReturn ==
    /\ pc = "bkernel"
    /\ bdone = BackwardGrid
    /\ pc' = "bwd_returned"
    /\ UNCHANGED <<caller, logits_shape, labels_shape, logits_row_stride,
                   logits, scores0, labels, losses, logsumexp, fdone, dlosses,
                   dloss_row_stride, bdone, stores, result>>

Next ==
    \/ LossCall
    \/ ForwardLaunch
    \/ \E r \in 0 .. MaxRows - 1 : ForwardUnit(r)
    \/ \E r \in 0 .. MaxRows - 1, c \in 0 .. MaxVocab : LargeForwardUnit(r, c)
    \/ ForwardReturn
    \/ Combine
    \/ Normalize
    \/ BackwardLaunch
    \/ \E r \in 0 .. MaxRows - 1, b \in 0 .. MaxVocab : BackwardUnit(r, b)
    \/ BackwardReturn

Spec == Init /\ [][Next]_vars

\* ------------------------------------------------------------------------
\* Reference values the claims are stated with
\* ------------------------------------------------------------------------
Rows == 0 .. NRows - 1
Cols == 0 .. VocabSize - 1
AddrOf(row, col) == row * logits_row_stride + col
ScoreAt(row, col) == scores0[AddrOf(row, col)]
HasLabel(row) == labels[row] \in Cols
\* log(sum(exp(row))) of the whole row, as the mathematical definition
TrueLogSumExp(row) == FLog(FSum([c \in Cols |-> FExp(ScoreAt(row, c))]))
TrueLoss(row) ==
    IF labels[row] = IGNORE THEN FInt(0)
    ELSE FSub(TrueLogSumExp(row), ScoreAt(row, labels[row]))
ForwardReturned == pc \in {"loss_norm", "returned"}
InBackward == pc \in {"bkernel", "bwd_returned"}
RowWritten(row) == \A b \in 0 .. NBlocks - 1 : <<row, b>> \in bdone
\* the gradient of the loss at one column
TrueGradient(row, col) ==
    FMul(dlosses[row * dloss_row_stride],
         FSub(FExp(FSub(ScoreAt(row, col), logsumexp[row])),
              FInt(IF col = labels[row] THEN 1 ELSE 0)))

\* C1: for a row with a label in [0, vocab), forward returns
\* loss = logsumexp(whole row) - row[label] and that logsumexp, on the
\* single-pass and on the chunked path alike; on the chunked path the loss
\* partials of the row sum to -row[label] before the combined logsumexp is
\* added once.
C1_LossIsLogSumExpMinusLabel ==
    /\ ForwardReturned =>
         \A row \in Rows : HasLabel(row) =>
            /\ logsumexp[row] = TrueLogSumExp(row)
            /\ losses[row] = FSub(TrueLogSumExp(row), ScoreAt(row, labels[row]))
    /\ (pc = "kernel" /\ NChunks > 1 /\ fdone = ForwardGrid) =>
         \A row \in Rows : HasLabel(row) =>
            TorchColumnSum(losses, NChunks, NRows, row)
               = FNeg(ScoreAt(row, labels[row]))

C1_Witness ==
    /\ ForwardReturned
    /\ NChunks > 1
    /\ NRows = 2
    /\ labels[0] = 0
    /\ labels[1] = VocabSize - 1
    /\ losses[1] = FSub(TrueLogSumExp(1), ScoreAt(1, VocabSize - 1))
    /\ losses[1] # FInt(0)

\* C2: for a row whose label is IGNORE, forward returns loss 0, and once
\* backward has run over all blocks of the row every element of the row is 0.
C2_IgnoredRowIsZero ==
    /\ ForwardReturned =>
         \A row \in Rows : labels[row] = IGNORE => losses[row] = FInt(0)
    /\ InBackward =>
         \A row \in Rows : (labels[row] = IGNORE /\ RowWritten(row)) =>
            \A c \in Cols : logits[AddrOf(row, c)] = FInt(0)

C2_Witness ==
    /\ pc = "bwd_returned"
    /\ NChunks > 1
    /\ NRows = 2
    /\ labels[0] = IGNORE
    /\ labels[1] # IGNORE
    /\ losses[0] = FInt(0)
    /\ \A c \in Cols : logits[AddrOf(0, c)] = FInt(0)
    /\ \E c \in Cols : scores0[AddrOf(0, c)] # FInt(0)

\* C3: on the chunked path the chunks of a row partition [0, vocab): every
\* column lies in exactly one chunk, a label in [0, vocab) is found by exactly
\* one chunk unit, whose loss partial is -row[label], and every other unit's
\* partial, and every partial of a row labelled IGNORE, is 0.
C3_OneChunkFindsLabel ==
    (pc = "kernel" /\ NChunks > 1) =>
        \A row \in Rows :
            /\ \A col \in Cols :
                 Cardinality({c \in 0 .. NChunks - 1 :
                     col \in BlockCols(c, VocabSize, MAX_FUSED_SIZE)}) = 1
            /\ Cardinality({c \in 0 .. NChunks - 1 :
                   LabelInChunk(labels[row], c, MAX_FUSED_SIZE, VocabSize)})
                 = (IF labels[row] = IGNORE THEN 0 ELSE 1)
            /\ \A c \in 0 .. NChunks - 1 : <<row, c>> \in fdone =>
                 losses[row + c * NRows]
                    = (IF HasLabel(row) /\ labels[row] \div MAX_FUSED_SIZE = c
                       THEN FNeg(ScoreAt(row, labels[row]))
                       ELSE FInt(0))

C3_Witness ==
    /\ pc = "kernel"
    /\ NChunks > 1
    /\ NRows = 2
    /\ fdone = ForwardGrid
    /\ labels[0] = IGNORE
    /\ labels[1] = MAX_FUSED_SIZE
    /\ losses[1 + 1 * NRows] # FInt(0)
    /\ losses[1 + 0 * NRows] = FInt(0)

\* C4: in backward no address is stored to by two units, every store of a
\* unit lies in the columns [0, vocab) of its own row, and the units of a row
\* together store to each of those columns.
C4_BackwardStoresDisjoint ==
    InBackward =>
        /\ \A s \in stores : \A t \in stores : s[3] = t[3] => s = t
        /\ \A s \in stores : s[3] \in {AddrOf(s[1], c) : c \in Cols}
        /\ \A row \in Rows : RowWritten(row) =>
             {s[3] : s \in {t \in stores : t[1] = row}}
                = {AddrOf(row, c) : c \in Cols}

C4_Witness ==
    /\ pc = "bwd_returned"
    /\ NRows = 2
    /\ NBlocks = 3
    /\ logits_row_stride > VocabSize
    /\ Cardinality(stores) = NRows * VocabSize
    /\ logits[VocabSize] = scores0[VocabSize]

\* C5: on the chunked path each unit stores both of its partials to its own
\* slot row + chunk * n_rows and to no other, and the combine step runs only
\* when every unit of the grid has run and every slot it reads is written.
C5_CombineAfterAllUnits ==
    [][ (pc = "kernel" /\ NChunks > 1) =>
          /\ \A u \in fdone' \ fdone :
                LET own == u[1] + u[2] * NRows
                IN  /\ losses'[own] # EMPTY
                    /\ logsumexp'[own] # EMPTY
                    /\ \A s \in DOMAIN losses \ {own} :
                          /\ losses'[s] = losses[s]
                          /\ logsumexp'[s] = logsumexp[s]
          /\ pc' # "kernel" =>
                /\ fdone = ForwardGrid
                /\ DOMAIN losses = 0 .. NChunks * NRows - 1
                /\ \A s \in DOMAIN losses :
                      losses[s] # EMPTY /\ logsumexp[s] # EMPTY ]_vars

C5_Witness ==
    /\ ForwardReturned
    /\ NChunks > 1
    /\ NRows = 2
    /\ fdone = ForwardGrid
    /\ \A row \in Rows : logsumexp[row] # EMPTY /\ losses[row] # EMPTY

\* the units of a grid of the given width, run one after another in index
\* order
UnitAt(i, width) == <<i \div width, i % width>>

RECURSIVE SeqForward(_, _)
SeqForward(k, n) ==
    IF n = 0 THEN [logsumexp |-> k.logsumexp, losses |-> k.losses]
    ELSE LET prev == SeqForward(k, n - 1)
             u    == UnitAt(n - 1, NChunks)
             k1   == [k EXCEPT !.losses = prev.losses,
                                !.logsumexp = prev.logsumexp]
         IN  IF NChunks = 1 THEN _cross_entropy_forward(k1, u[1])
             ELSE _large_cross_entropy_forward(k1, u[1], u[2])

RECURSIVE SeqBackward(_, _)
SeqBackward(k, n) ==
    IF n = 0 THEN k.logits
    ELSE LET u == UnitAt(n - 1, NBlocks)
         IN  _cross_entropy_backward(
                 [k EXCEPT !.logits = SeqBackward(k, n - 1)], u[1], u[2])

ForwardStart ==
    LET bs == IF NChunks = 1 THEN calculate_settings(VocabSize)
              ELSE MAX_FUSED_SIZE
    IN  [ForwardArgs(bs) EXCEPT !.losses = Buffer(NChunks * NRows, EMPTY),
                                !.logsumexp = Buffer(NChunks * NRows, EMPTY)]

BackwardStart == [BackwardArgs EXCEPT !.logits = scores0]

\* C6: whatever the order in which the units of a phase run, the forward
\* phase ends with the losses and logsumexp buffers, and the backward phase
\* with the score buffer, that running the units one after another in index
\* order gives; and every backward unit stores what it would store if it ran
\* alone on the original scores (it reads nothing another unit has written).
C6_OrderIndependent ==
    [][ /\ (pc = "kernel" /\ fdone' = ForwardGrid) =>
              LET seq == SeqForward(ForwardStart, NRows * NChunks)
              IN  (pc' = "kernel") =>
                     /\ losses' = seq.losses
                     /\ logsumexp' = seq.logsumexp
        /\ (pc = "bkernel" /\ pc' = "bwd_returned") =>
              logits' = SeqBackward(BackwardStart, NRows * NBlocks)
        /\ (pc = "bkernel") =>
              \A u \in bdone' \ bdone :
                 LET alone == _cross_entropy_backward(BackwardStart, u[1], u[2])
                 IN  \A a \in BackwardStores(BackwardArgs, u[1], u[2]) :
                        a \in DOMAIN logits => logits'[a] = alone[a] ]_vars

C6_Witness ==
    /\ pc = "bwd_returned"
    /\ NRows = 2
    /\ NChunks > 1
    /\ logits_row_stride = VocabSize
    /\ logits = SeqBackward(BackwardStart, NRows * NBlocks)
    /\ logits # scores0

\* C7: forward leaves the scores and the labels as they were; after forward
\* has returned, logsumexp holds one value per row and no step changes it;
\* and each backward unit stores, at each of its columns, the gradient
\* computed from the score that column held and the saved logsumexp of its
\* row.
C7_LogSumExpCarriedUnchanged ==
    [][ /\ pc \in {"loss_call", "apply_call", "kernel"} =>
              (logits' = logits /\ labels' = labels)
        /\ pc \in {"loss_norm", "returned", "bkernel"} =>
              (logsumexp' = logsumexp /\ DOMAIN logsumexp = Rows)
        /\ pc = "bkernel" =>
              \A u \in bdone' \ bdone :
                 \A c \in BlockCols(u[2], VocabSize, BACKWARD_BLOCK_SIZE) :
                    logits'[AddrOf(u[1], c)]
                       = FMul((IF labels[u[1]] = IGNORE THEN FInt(0)
                               ELSE dlosses[u[1] * dloss_row_stride]),
                              FSub(FExp(FSub(logits[AddrOf(u[1], c)],
                                             logsumexp[u[1]])),
                                   FInt(IF c = labels[u[1]] THEN 1 ELSE 0)))
      ]_vars

C7_Witness ==
    /\ pc = "bwd_returned"
    /\ NChunks > 1
    /\ NRows = 2
    /\ \A row \in Rows : HasLabel(row) /\ logsumexp[row] = TrueLogSumExp(row)
    /\ logits # scores0

\* the row counts of the scores and of the labels differ
RowMismatch ==
    IF pc = "loss_call"
    THEN logits_shape[1] * logits_shape[2] # labels_shape[1] * labels_shape[2]
    ELSE NRows # NLabels

\* C8: when the row counts of the scores and of the labels differ, no
\* kernel unit runs and no loss is returned, for fast_cross_entropy_loss and
\* for the forward it calls.
C8_MismatchFailsBeforeKernels ==
    RowMismatch =>
        /\ fdone = {}
        /\ bdone = {}
        /\ pc \in {"loss_call", "apply_call", "kernel", "error"}

\* C9: fast_cross_entropy_loss returns the sum of the per-row losses divided
\* by the number of rows whose label is not IGNORE, and NaN (no finite value)
\* when that number is 0.
C9_MeanOverValidRows ==
    (pc = "returned" /\ caller = "loss") =>
        LET valid == {row \in Rows : labels[row] # IGNORE}
        IN  IF valid = {}
            THEN ~IsFinite(result.num) /\ IsNaN(result.num)
            ELSE result = [num |-> FSum([row \in Rows |-> TrueLoss(row)]),
                           den |-> Cardinality(valid)]

C9_Witness ==
    /\ pc = "returned"
    /\ caller = "loss"
    /\ NRows = 2
    /\ \A row \in Rows : labels[row] = IGNORE
    /\ IsNaN(result.num)

\* C10: for a row with a label in [0, vocab), once backward has run over all
\* blocks of the row, column j holds upstream * (exp(score - logsumexp) - 1)
\* when j is the label and upstream * exp(score - logsumexp) otherwise, with
\* score the original score of column j.
C10_GradientIsSoftmaxMinusIndicator ==
    InBackward =>
        \A row \in Rows : (HasLabel(row) /\ RowWritten(row)) =>
            \A c \in Cols : logits[AddrOf(row, c)] = TrueGradient(row, c)

C10_Witness ==
    /\ pc = "bwd_returned"
    /\ NRows = 2
    /\ NChunks > 1
    /\ dloss_row_stride = 1
    /\ labels[0] = 1
    /\ labels[1] = VocabSize - 1
    /\ \A row \in Rows : \A c \in Cols :
          logits[AddrOf(row, c)] = TrueGradient(row, c)
    /\ FLess(logits[AddrOf(0, 1)], FInt(0))
    /\ FLess(FInt(0), logits[AddrOf(0, 0)])
====
